---- MODULE Spec2Model ----
(***************************************************************************)
(* calendar_integration.py: the two Flask handlers get_available_slots and *)
(* book_meeting, the provider glue (get_calendar_service,                  *)
(* query_free_busy) and the gap sweep compute_free_slots.                  *)
(*                                                                         *)
(* Time is counted in minutes.  An ISO 8601 string is a record             *)
(* [kind, wall, suffix]: wall is the wall-clock reading of the string,     *)
(* suffix its UTC-offset text ("" for a naive string).  An aware datetime  *)
(* is a record [instant, tz]: instant is the UTC minute, tz the zone it is *)
(* rendered in.  Python compares and subtracts aware datetimes by instant. *)
(***************************************************************************)
EXTENDS Integers, Sequences, FiniteSets, TLC

VARIABLES env, request, pc, start, end, duration, busy_periods, free_slots,
          calls, resp

vars == <<env, request, pc, start, end, duration, busy_periods, free_slots,
          calls, resp>>

(* ------------------------------ bounds --------------------------------- *)

\* SpecSlots: instants are 0, 60, ..., 60 * MaxTime
MaxTime == 3
\* SpecSlots: longest busy list handed to compute_free_slots
MaxBusy == 2
\* durations are 60 * k minutes for k in -1 .. MaxDur
MaxDur == 2
\* Spec: wall-clock readings of request strings are 0, 60, ..., 60 * MaxReqTime
MaxReqTime == 1
\* Spec: longest busy list the provider answers with
MaxProviderBusy == 2

(* --------------------------- ISO strings ------------------------------- *)

IsoStr(wall, suffix) == [kind |-> "iso", wall |-> wall, suffix |-> suffix]

\* a text fromisoformat rejects, such as "n/a"
Malformed == [kind |-> "malformed", wall |-> 0, suffix |-> ""]

\* request.args.get / data.get answered None (or an empty string)
Missing == [kind |-> "missing", wall |-> 0, suffix |-> ""]

NoDatetime == [instant |-> 0, tz |-> "none"]

NoRequest ==
    [endpoint |-> "none", body |-> "none", start |-> Missing, end |-> Missing,
     duration_given |-> FALSE, duration_minutes |-> 0]

NoResponse == [status |-> 0, json |-> FALSE, fields |-> {}]

\* utcoffset of the pytz zone, in minutes (Europe/Stockholm in summer, CEST)
UtcOffset(tz) == IF tz = "Europe/Stockholm" THEN 120 ELSE 0

\* the offset a "+hh:mm" suffix denotes, in minutes
SuffixOffset(suffix) == IF suffix = "+02:00" THEN 120 ELSE 0

\* datetime.fromisoformat raises ValueError on the text
parse_iso_raises(dt_str) == dt_str.kind # "iso"

\* parse_iso(dt_str, tz), for a text fromisoformat accepts
parse_iso(dt_str, tz) ==
    LET suffix == IF dt_str.suffix = "Z" THEN "+00:00" ELSE dt_str.suffix
    IN  IF suffix = ""
        THEN [instant |-> dt_str.wall - UtcOffset(tz), tz |-> tz]
        ELSE [instant |-> dt_str.wall - SuffixOffset(suffix), tz |-> tz]

\* datetime.isoformat() of an aware datetime: wall clock of its zone + offset
isoformat(dt) ==
    IsoStr(dt.instant + UtcOffset(dt.tz),
           IF dt.tz = "Europe/Stockholm" THEN "+02:00" ELSE "+00:00")

(* ------------------------- compute_free_slots -------------------------- *)

\* cursor update of a mutated sweep: always jumps to busy_end
AdvanceAlways(current_start, busy_end) == busy_end

\* lines 142-143: move current_start past the busy block if it overlaps
Advance(current_start, busy_end) ==
    IF busy_end.instant > current_start.instant THEN busy_end ELSE current_start

\* gap test of a mutated sweep: any positive-length gap is emitted
LongEnoughAny(free_duration, d) == TRUE

\* lines 136 and 147: free_duration >= duration
LongEnough(free_duration, d) == free_duration >= d

\* a mutated sweep that forgets the free time after the last busy period
TrailingGapMissing(current_start, e, d) == <<>>

\* lines 145-151: free time after the last busy period
TrailingGap(current_start, e, d) ==
    IF e.instant > current_start.instant
       /\ LongEnough(e.instant - current_start.instant, d)
    THEN <<[start |-> isoformat(current_start), end |-> isoformat(e)]>>
    ELSE <<>>

\* lines 131-143: one iteration of the loop over busy_periods
SweepStep(acc, period, tz, d) ==
    LET busy_start == parse_iso(period.start, tz)
        busy_end == parse_iso(period.end, tz)
        emitted ==
            IF busy_start.instant > acc.current_start.instant
               /\ LongEnough(busy_start.instant - acc.current_start.instant, d)
            THEN Append(acc.free_slots,
                        [start |-> isoformat(acc.current_start),
                         end |-> isoformat(busy_start)])
            ELSE acc.free_slots
    IN  [current_start |-> Advance(acc.current_start, busy_end),
         free_slots |-> emitted]

RECURSIVE Sweep(_, _, _, _, _)
\* lines 130-143: the loop, from index i on
Sweep(periods, i, acc, tz, d) ==
    IF i > Len(periods) THEN acc
    ELSE Sweep(periods, i + 1, SweepStep(acc, periods[i], tz, d), tz, d)

\* compute_free_slots raises: some period's start or end does not parse
compute_free_slots_raises(periods) ==
    \E i \in 1..Len(periods) :
        parse_iso_raises(periods[i].start) \/ parse_iso_raises(periods[i].end)

\* compute_free_slots(busy_periods, start, end, duration)
compute_free_slots(periods, s, e, d) ==
    LET acc == Sweep(periods, 1, [current_start |-> s, free_slots |-> <<>>],
                     s.tz, d)
    IN  acc.free_slots \o TrailingGap(acc.current_start, e, d)

(* ---------------- SpecSlots: compute_free_slots alone ------------------ *)

Instants == {60 * k : k \in 0..MaxTime}

Durations == {60 * k : k \in -1..MaxDur}

\* the offset texts a free/busy answer is rendered in
ProviderSuffixes == {"Z", "+02:00"}

\* a busy period at the given instants, rendered with one suffix; the
\* provider answers periods of positive length (start < end)
PeriodAt(a, b, suffix) ==
    [start |-> IsoStr(a + SuffixOffset(suffix), suffix),
     end |-> IsoStr(b + SuffixOffset(suffix), suffix)]

Periods(T) ==
    {PeriodAt(a, b, x) : <<a, b, x>> \in
        {t \in T \X T \X ProviderSuffixes : t[1] < t[2]}}

SeqsUpTo(S, n) == UNION {[1..k -> S] : k \in 0..n}

StartInstant(period) == parse_iso(period.start, "UTC").instant
EndInstant(period) == parse_iso(period.end, "UTC").instant

\* the list is in the order of the instants its periods start at
SortedByStart(periods) ==
    \A i \in 1..Len(periods) - 1 :
        StartInstant(periods[i]) <= StartInstant(periods[i + 1])

SlotsInit ==
    /\ env = [calendar_id |-> TRUE, credentials |-> "ok", tz_name |-> "UTC"]
    /\ request = NoRequest
    /\ pc = "call"
    /\ \E a \in Instants, b \in Instants, tz \in {"UTC", "Europe/Stockholm"} :
          /\ a < b
          /\ start = [instant |-> a, tz |-> tz]
          /\ end = [instant |-> b, tz |-> tz]
    /\ duration \in Durations
    /\ busy_periods \in {l \in SeqsUpTo(Periods(Instants), MaxBusy) :
                            SortedByStart(l)}
    /\ free_slots = <<>>
    /\ calls = <<>>
    /\ resp = NoResponse

SlotsCompute ==
    /\ pc = "call"
    /\ free_slots' = compute_free_slots(busy_periods, start, end, duration)
    /\ pc' = "returned"
    /\ UNCHANGED <<env, request, start, end, duration, busy_periods, calls,
                   resp>>

SlotsNext == SlotsCompute

SpecSlots == SlotsInit /\ [][SlotsNext]_vars

(* --------------------------- query_free_busy --------------------------- *)

\* character codes of an offset suffix, for Python's string comparison
SuffixCodes(suffix) ==
    CASE suffix = "Z" -> <<90>>
      [] suffix = "+00:00" -> <<43, 48, 48, 58, 48, 48>>
      [] suffix = "+02:00" -> <<43, 48, 50, 58, 48, 48>>
      [] OTHER -> <<>>

\* s < t for Python sequences of character codes
LexLess(s, t) ==
    \E i \in 1..(Len(t)) :
        /\ \A j \in 1..(i - 1) : j <= Len(s) /\ s[j] = t[j]
        /\ (i > Len(s) \/ s[i] < t[i])

\* a < b for Python strings: the date and time fields have a fixed width, so
\* two ISO texts compare by wall clock first and by suffix text after it; a
\* text such as "n/a" compares after every text that begins with a year
StrLess(a, b) ==
    IF a.kind = "iso" /\ b.kind = "iso"
    THEN \/ a.wall < b.wall
         \/ a.wall = b.wall /\ LexLess(SuffixCodes(a.suffix), SuffixCodes(b.suffix))
    ELSE a.kind = "iso" /\ b.kind # "iso"

RECURSIVE InsertByStart(_, _)
\* x placed after every element whose key is not greater (the sort is stable)
InsertByStart(sorted, x) ==
    IF sorted = <<>> THEN <<x>>
    ELSE IF StrLess(x.start, Head(sorted).start) THEN <<x>> \o sorted
    ELSE <<Head(sorted)>> \o InsertByStart(Tail(sorted), x)

RECURSIVE SortedPrefix(_, _)
SortedPrefix(periods, n) ==
    IF n = 0 THEN <<>>
    ELSE InsertByStart(SortedPrefix(periods, n - 1), periods[n])

\* line 165: busy_periods.sort(key=lambda x: x["start"])
sort_by_start_key(periods) == SortedPrefix(periods, Len(periods))

(* ------------------------------ handlers ------------------------------- *)

KnownZones == {"UTC", "Europe/Stockholm"}

\* the process environment: GOOGLE_CALENDAR_ID set or not, the credentials
\* file present or not, DEFAULT_TIMEZONE a zone pytz knows or not
Envs ==
    [calendar_id : BOOLEAN, credentials : {"missing", "ok"},
     tz_name : KnownZones \cup {"Not/AZone"}]

\* default of the duration_minutes query parameter
DefaultDurationMinutes == 60

EventFields == {"id", "htmlLink", "summary", "start", "end"}

\* jsonify(obj), status
JsonResponse(fields, status) ==
    [status |-> status, json |-> TRUE, fields |-> fields]

\* an exception that leaves the view function: Flask answers with its
\* 500 Internal Server Error page, which is no JSON object
UnhandledException == [status |-> 500, json |-> FALSE, fields |-> {}]

\* a mutated validation that lets start = end through
window_check_strict(start_str, end_str, tz) ==
    IF start_str.kind = "missing" \/ end_str.kind = "missing" THEN "required"
    ELSE IF parse_iso_raises(start_str) \/ parse_iso_raises(end_str)
    THEN "format"
    ELSE IF parse_iso(start_str, tz).instant > parse_iso(end_str, tz).instant
    THEN "order"
    ELSE "ok"

\* lines 182-190 and 217-225: the checks of start and end
window_check(start_str, end_str, tz) ==
    IF start_str.kind = "missing" \/ end_str.kind = "missing" THEN "required"
    ELSE IF parse_iso_raises(start_str) \/ parse_iso_raises(end_str)
    THEN "format"
    ELSE IF parse_iso(start_str, tz).instant >= parse_iso(end_str, tz).instant
    THEN "order"
    ELSE "ok"

\* a mutated get_calendar_service that does not look at the credentials path
credentials_unchecked(e) == TRUE

\* lines 100-104: the credentials path is set and the file exists
credentials_usable(e) == e.credentials # "missing"

ReqStrings ==
    {Missing, Malformed} \cup
    {IsoStr(60 * k, x) : <<k, x>> \in (0..MaxReqTime) \X {"", "Z"}}

GetRequests ==
    {r \in [endpoint : {"get_available_slots"}, body : {"none"},
            start : ReqStrings, end : ReqStrings,
            duration_given : BOOLEAN, duration_minutes : Durations] :
        ~r.duration_given => r.duration_minutes = 0}

\* body: request.get_json(silent=True) is falsy ("empty"), a non-empty JSON
\* value that is no object ("nonobject"), or a non-empty object ("object")
PostRequests ==
    {r \in [endpoint : {"book_meeting"},
            body : {"empty", "nonobject", "object"},
            start : ReqStrings, end : ReqStrings,
            duration_given : {FALSE}, duration_minutes : {0}] :
        r.body # "object" => (r.start = Missing /\ r.end = Missing)}

MalformedPeriod == [start |-> Malformed, end |-> Malformed]

ProviderInstants == {60 * k : k \in 0..(MaxReqTime + 1)}

\* what the free/busy endpoint may answer with, in any order
ProviderLists ==
    SeqsUpTo(Periods(ProviderInstants) \cup {MalformedPeriod}, MaxProviderBusy)

Init ==
    /\ env \in Envs
    /\ request = NoRequest
    /\ pc = "idle"
    /\ start = NoDatetime
    /\ end = NoDatetime
    /\ duration = 0
    /\ busy_periods = <<>>
    /\ free_slots = <<>>
    /\ calls = <<>>
    /\ resp = NoResponse

\* the handler returns r
Return(r) ==
    /\ pc' = "done"
    /\ resp' = r

\* the handler returns r before start, end and duration are bound
Reject(r) ==
    /\ Return(r)
    /\ start' = NoDatetime
    /\ end' = NoDatetime
    /\ duration' = 0

\* lines 172-191: get_available_slots up to the try block.  The values of
\* duration_minutes stay within the range timedelta(minutes=...) accepts.
GetAvailableSlots(req) ==
    /\ pc = "idle"
    /\ request' = req
    /\ IF ~env.calendar_id THEN Reject(JsonResponse({"error"}, 500))
       ELSE IF env.tz_name \notin KnownZones THEN Reject(UnhandledException)
       ELSE IF window_check(req.start, req.end, env.tz_name) # "ok"
       THEN Reject(JsonResponse({"error"}, 400))
       ELSE /\ start' = parse_iso(req.start, env.tz_name)
            /\ end' = parse_iso(req.end, env.tz_name)
            /\ duration' = IF req.duration_given THEN req.duration_minutes
                           ELSE DefaultDurationMinutes
            /\ pc' = "service"
            /\ resp' = NoResponse
    /\ UNCHANGED <<env, busy_periods, free_slots, calls>>

\* lines 202-225: book_meeting up to the try block
BookMeeting(req) ==
    /\ pc = "idle"
    /\ request' = req
    /\ IF ~env.calendar_id THEN Reject(JsonResponse({"error"}, 500))
       ELSE IF env.tz_name \notin KnownZones THEN Reject(UnhandledException)
       ELSE IF req.body = "empty" THEN Reject(JsonResponse({"error"}, 400))
       ELSE IF req.body = "nonobject" THEN Reject(UnhandledException)
       ELSE IF window_check(req.start, req.end, env.tz_name) # "ok"
       THEN Reject(JsonResponse({"error"}, 400))
       ELSE /\ start' = parse_iso(req.start, env.tz_name)
            /\ end' = parse_iso(req.end, env.tz_name)
            /\ duration' = 0
            /\ pc' = "service"
            /\ resp' = NoResponse
    /\ UNCHANGED <<env, busy_periods, free_slots, calls>>

\* lines 193 and 227: get_calendar_service() inside the try block; loading
\* the key file and building the client may themselves raise
GetCalendarService ==
    /\ pc = "service"
    /\ IF ~credentials_usable(env)
       THEN /\ Return(JsonResponse({"error"}, 500))
            /\ calls' = calls
       ELSE /\ calls' = Append(calls, "build")
            /\ \/ Return(JsonResponse({"error"}, 500))
               \/ /\ pc' = IF request.endpoint = "get_available_slots"
                           THEN "query" ELSE "insert"
                  /\ resp' = resp
    /\ UNCHANGED <<env, request, start, end, duration, busy_periods,
                   free_slots>>

\* line 194: query_free_busy; the provider call raises or answers a list,
\* which is sorted by the raw start string
QueryFreeBusy ==
    /\ pc = "query"
    /\ calls' = Append(calls, "freebusy")
    /\ \/ /\ Return(JsonResponse({"error"}, 500))
          /\ busy_periods' = busy_periods
       \/ \E answer \in ProviderLists :
             /\ busy_periods' = sort_by_start_key(answer)
             /\ pc' = "compute"
             /\ resp' = resp
    /\ UNCHANGED <<env, request, start, end, duration, free_slots>>

\* the periods before the first one that does not parse
ParsablePrefix(periods) ==
    SubSeq(periods, 1,
           Cardinality({i \in 1..Len(periods) :
               \A j \in 1..i : ~compute_free_slots_raises(<<periods[j]>>)}))

\* lines 195-198: compute_free_slots and the answer.  When a period does not
\* parse, the list built so far is lost with the exception.
ComputeFreeSlots ==
    /\ pc = "compute"
    /\ IF compute_free_slots_raises(busy_periods)
       THEN /\ free_slots' =
                  Sweep(ParsablePrefix(busy_periods), 1,
                        [current_start |-> start, free_slots |-> <<>>],
                        start.tz, duration).free_slots
            /\ Return(JsonResponse({"error"}, 500))
       ELSE /\ free_slots' =
                  compute_free_slots(busy_periods, start, end, duration)
            /\ Return(JsonResponse({"free_slots"}, 200))
    /\ UNCHANGED <<env, request, start, end, duration, busy_periods, calls>>

\* lines 228-246: the event insert and the answer
InsertEvent ==
    /\ pc = "insert"
    /\ calls' = Append(calls, "insert")
    /\ \/ Return(JsonResponse({"error"}, 500))
       \/ Return(JsonResponse(EventFields, 201))
    /\ UNCHANGED <<env, request, start, end, duration, busy_periods,
                   free_slots>>

\* the response is sent; every per-request value is discarded
NextRequest ==
    /\ pc = "done"
    /\ pc' = "idle"
    /\ request' = NoRequest
    /\ start' = NoDatetime
    /\ end' = NoDatetime
    /\ duration' = 0
    /\ busy_periods' = <<>>
    /\ free_slots' = <<>>
    /\ calls' = <<>>
    /\ resp' = NoResponse
    /\ UNCHANGED env

Next ==
    \/ \E req \in GetRequests : GetAvailableSlots(req)
    \/ \E req \in PostRequests : BookMeeting(req)
    \/ GetCalendarService
    \/ QueryFreeBusy
    \/ ComputeFreeSlots
    \/ InsertEvent
    \/ NextRequest

Spec == Init /\ [][Next]_vars

(* ------------------- properties of compute_free_slots ------------------ *)

GapStart(g) == parse_iso(g.start, "UTC").instant
GapEnd(g) == parse_iso(g.end, "UTC").instant

Overlaps(g, period) ==
    GapStart(g) < EndInstant(period) /\ GapEnd(g) > StartInstant(period)

\* C1: for a positive duration and a busy list sorted by start, the returned
\* gaps are in chronological order, pairwise non-overlapping (each gap ends
\* no later than the next one starts) and each is at least duration long.
C1_GapsOrderedDisjointLongEnough ==
    (pc = "returned" /\ duration > 0 /\ SortedByStart(busy_periods)) =>
        /\ \A i \in 1..Len(free_slots) :
              GapEnd(free_slots[i]) - GapStart(free_slots[i]) >= duration
        /\ \A i \in 1..Len(free_slots), j \in 1..Len(free_slots) :
              i < j => /\ GapStart(free_slots[i]) < GapStart(free_slots[j])
                       /\ GapEnd(free_slots[i]) <= GapStart(free_slots[j])

\* a call with a busy period in the middle of the window that returned the
\* gap before it and the gap after it
C1_Witness ==
    /\ pc = "returned"
    /\ duration > 0
    /\ Len(busy_periods) >= 1
    /\ Len(free_slots) = 2

\* C2: for a busy list sorted by start, overlapping and nested periods
\* included, no returned gap overlaps any busy period of the input.
C2_NoGapOverlapsBusy ==
    (pc = "returned" /\ SortedByStart(busy_periods)) =>
        \A i \in 1..Len(free_slots), k \in 1..Len(busy_periods) :
            ~Overlaps(free_slots[i], busy_periods[k])

\* a call whose second busy period lies inside the first, which ends before
\* the window does, and which returned a gap
C2_Witness ==
    /\ pc = "returned"
    /\ Len(busy_periods) = 2
    /\ StartInstant(busy_periods[1]) <= StartInstant(busy_periods[2])
    /\ EndInstant(busy_periods[2]) < EndInstant(busy_periods[1])
    /\ EndInstant(busy_periods[1]) < end.instant
    /\ Len(free_slots) >= 1

\* the 60-minute cell beginning at t lies in the window and in no busy period
FreeCell(t) ==
    /\ start.instant <= t
    /\ t + 60 <= end.instant
    /\ \A k \in 1..Len(busy_periods) :
          ~(t < EndInstant(busy_periods[k])
            /\ t + 60 > StartInstant(busy_periods[k]))

GridPoints == {60 * k : k \in -1..(MaxTime + 2)}

\* the maximal spans of the window that meet no busy period, duration or longer
ReferenceGaps ==
    {span \in GridPoints \X GridPoints :
        /\ span[1] < span[2]
        /\ \A t \in GridPoints : (span[1] <= t /\ t < span[2]) => FreeCell(t)
        /\ ~FreeCell(span[1] - 60)
        /\ ~FreeCell(span[2])
        /\ span[2] - span[1] >= duration}

ReturnedGaps ==
    {<<GapStart(free_slots[i]), GapEnd(free_slots[i])>> :
        i \in 1..Len(free_slots)}

\* C3: for a positive duration and a busy list sorted by start, the returned
\* list is exactly the maximal free spans of the window that are duration or
\* longer, each whole, in chronological order and nothing else.
C3_EqualsReference ==
    (pc = "returned" /\ duration > 0 /\ SortedByStart(busy_periods)) =>
        /\ ReturnedGaps = ReferenceGaps
        /\ Len(free_slots) = Cardinality(ReferenceGaps)

\* C6: with an empty busy list the result is the single gap [start, end)
\* when end - start >= duration and no gap otherwise.
C6_EmptyBusyList ==
    (pc = "returned" /\ busy_periods = <<>>) =>
        IF end.instant - start.instant >= duration
        THEN /\ Len(free_slots) = 1
             /\ GapStart(free_slots[1]) = start.instant
             /\ GapEnd(free_slots[1]) = end.instant
        ELSE free_slots = <<>>

\* a call with no busy period and a window long enough for the duration
C6_Witness ==
    /\ pc = "returned"
    /\ busy_periods = <<>>
    /\ duration > 0
    /\ end.instant - start.instant >= duration
    /\ Len(free_slots) = 1

\* C9: busy periods are clipped to the window: every returned gap satisfies
\* start <= gap.start < gap.end <= end, also when busy periods begin before
\* start, end after end or lie wholly outside the window, and a busy period
\* covering the whole window leaves no gap.
C9_GapsInsideWindow ==
    (pc = "returned" /\ SortedByStart(busy_periods)) =>
        /\ \A i \in 1..Len(free_slots) :
              /\ start.instant <= GapStart(free_slots[i])
              /\ GapStart(free_slots[i]) < GapEnd(free_slots[i])
              /\ GapEnd(free_slots[i]) <= end.instant
        /\ (\E k \in 1..Len(busy_periods) :
               /\ StartInstant(busy_periods[k]) <= start.instant
               /\ EndInstant(busy_periods[k]) >= end.instant)
           => free_slots = <<>>

(* ----------------------- properties of the handlers -------------------- *)

\* the zone the handler parses the request in (UTC stands in for a zone name
\* pytz does not know, under which no string is ever parsed)
RequestZone == IF env.tz_name \in KnownZones THEN env.tz_name ELSE "UTC"

\* the request at hand has start or end missing or unparsable, or start >= end
InvalidWindow ==
    /\ request.endpoint \in {"get_available_slots", "book_meeting"}
    /\ request.body # "nonobject"
    /\ \/ request.start.kind # "iso"
       \/ request.end.kind # "iso"
       \/ parse_iso(request.start, RequestZone).instant
              >= parse_iso(request.end, RequestZone).instant

ProviderCalls == {calls[i] : i \in 1..Len(calls)}

ErrorObject ==
    resp.json /\ resp.fields = {"error"} /\ resp.status \in {400, 500}

SuccessObject ==
    /\ resp.json
    /\ \/ resp.fields = {"free_slots"} /\ resp.status = 200
       \/ resp.fields = EventFields /\ resp.status = 201

\* C4: a get_available_slots request whose duration_minutes is zero or
\* negative ends with status 400 and an error body, and neither the
\* free/busy call nor compute_free_slots runs for it.  Stated for requests
\* that pass every other check (calendar id set, credentials present, known
\* zone, valid window), so that the duration alone decides.
C4_NonPositiveDurationRejected ==
    (/\ request.endpoint = "get_available_slots"
     /\ request.duration_given
     /\ request.duration_minutes <= 0
     /\ env.calendar_id
     /\ env.credentials = "ok"
     /\ env.tz_name \in KnownZones
     /\ ~InvalidWindow) =>
        /\ calls = <<>>
        /\ pc # "compute"
        /\ pc = "done" => (resp.status = 400 /\ ErrorObject)

\* C5 as stated: a request with an invalid window ends with status 400, and
\* no provider operation occurs at any point of its handling.
C5_InvalidWindowIs400 ==
    InvalidWindow =>
        /\ calls = <<>>
        /\ pc = "done" => resp.status = 400

\* C5 as amended: a request with an invalid window triggers no provider
\* operation at any point of its handling; it ends with status 400 when the
\* calendar id is set and DEFAULT_TIMEZONE names a known zone, and with
\* status 500 when the calendar id is unset or the zone is unknown.
C5_InvalidWindowRejectedBeforeProvider ==
    InvalidWindow =>
        /\ calls = <<>>
        /\ pc = "done" =>
              resp.status =
                  IF env.calendar_id /\ env.tz_name \in KnownZones
                  THEN 400 ELSE 500

\* a request with start = end, handled with a sound configuration, that was
\* answered 400 with nothing asked of the provider
C5_Witness ==
    /\ pc = "done"
    /\ env.calendar_id
    /\ env.tz_name \in KnownZones
    /\ request.start.kind = "iso"
    /\ request.end.kind = "iso"
    /\ parse_iso(request.start, RequestZone).instant
           = parse_iso(request.end, RequestZone).instant
    /\ resp.status = 400
    /\ calls = <<>>

\* C7: every response is an error object (an error field, status 400 or 500)
\* or a success object (free_slots with 200, the event echo with 201), and
\* never both.
C7_ErrorOrSuccessObject ==
    pc = "done" =>
        /\ ErrorObject \/ SuccessObject
        /\ ~(ErrorObject /\ SuccessObject)
        /\ "error" \in resp.fields => resp.fields = {"error"}

\* C8 as stated: a request handled while the calendar id or the credentials
\* are missing ends with status 500 and makes no free/busy query or insert.
C8_MissingConfigurationIs500 ==
    (~env.calendar_id \/ env.credentials = "missing") =>
        /\ ProviderCalls \cap {"freebusy", "insert"} = {}
        /\ pc = "done" => resp.status = 500

\* C8 as amended: while the calendar id or the credentials are missing no
\* free/busy query or event insert is made; the request ends with status 500
\* when the calendar id is missing, and when only the credentials are missing
\* it ends with status 500 unless the request validation rejects it first
\* with status 400 (known zone, body empty or an object, invalid window).
C8_MissingConfigurationNoProviderCall ==
    (~env.calendar_id \/ env.credentials = "missing") =>
        /\ ProviderCalls \cap {"freebusy", "insert"} = {}
        /\ pc = "done" =>
              resp.status =
                  IF /\ env.calendar_id
                     /\ env.tz_name \in KnownZones
                     /\ InvalidWindow
                  THEN 400 ELSE 500

\* a valid request handled with the calendar id set and the credentials
\* missing: answered 500 with nothing asked of the provider
C8_Witness ==
    /\ pc = "done"
    /\ env.calendar_id
    /\ env.credentials = "missing"
    /\ env.tz_name \in KnownZones
    /\ request.endpoint = "get_available_slots"
    /\ ~InvalidWindow
    /\ resp.status = 500
    /\ calls = <<>>

\* C10: whatever order the provider answers in, the list handed to
\* compute_free_slots is in the order of the instants the periods start at,
\* also when the start strings carry different UTC offsets.
C10_SortedByInstant ==
    (pc = "compute" /\ ~compute_free_slots_raises(busy_periods)) =>
        SortedByStart(busy_periods)

====
